---- MODULE Spec2Model ----
(***************************************************************************)
(* A model of the kaheljs dependency-injection layer: the DIContainer      *)
(* (provider registry, resolver, parent/child lookup), defineModule,       *)
(* defineController, createApp and the testing module.                     *)
(*                                                                         *)
(* Objects are integers: positive ids index the heap `objs` of instances   *)
(* built by factories/constructors, negative integers are values handed in *)
(* from outside (configuration objects, mocks), 0 is "absent".             *)
(***************************************************************************)
EXTENDS Integers, Sequences, FiniteSets, TLC

VARIABLES
    parent,      \* parent[c]: parent container of container c, 0 for none
    providers,   \* providers[c][t]: DIContainer.providers of container c
    instances,   \* instances[c][t]: DIContainer.instances of container c, 0 = no entry
    objs,        \* heap of instances built by factories and constructors
    runs,        \* runs[c][t]: invocations of the factory of the provider now registered at (c, t)
    made,        \* made[c][t]: invocations that returned an instance
    nRegs,       \* number of register() and override() calls made so far
    modules,     \* the ModuleDefinitions returned by defineModule
    ctrlDefs,    \* the controller factories returned by defineController
    ctrlInsts,   \* the controller definitions {prefix, app} built by controller factories
    apps,        \* the app returned by the last createApp call, if any
    lastErr,     \* the error of the last defineController/defineModule call that threw
    injectables, \* the Injectable objects returned by defineInjectable
    factory,     \* the fixture factory returned by createFactory: its defaults and its sequence
    calls        \* the calls made on the fixture factory, each with what it returned

vars == <<parent, providers, instances, objs, runs, made, nRegs,
          modules, ctrlDefs, ctrlInsts, apps, lastErr, injectables, factory, calls>>

----------------------------------------------------------------------------
(* Bounds *)

MaxRegs == 2
MaxObjs == 3
MaxRuns == 2
MaxModules == 3
MaxCtrlDefs == 2
MaxTests == 1
MaxUses == 1
MaxInjectables == 2
MaxCalls == 3
MaxMany == 2

----------------------------------------------------------------------------
(* Tokens and providers *)

\* "A", "B", "C" are string/symbol tokens, "K" is a class constructor.
Tokens == {"A", "B", "C", "K"}

\* A faulty isConstructorToken: no token is recognised as a constructor.
isConstructorToken_Never(token) == FALSE

isConstructorToken(token) == token = "K"

\* The static inject property of a class, [] when the class declares none;
\* class K declares none.
getInjectTokens(ctor) == <<>>

NoProvider ==
    [provide |-> "", kind |-> "none", useValue |-> 0, useClass |-> "", deps |-> <<>>,
     hasDeps |-> FALSE, lifetime |-> "undefined", throws |-> FALSE, arity |-> 0]

\* A faulty ValueProvider: the value is wrapped in a factory that returns it.
ValueProvider_AsFactory(t, v) ==
    [provide |-> t, kind |-> "factory", useValue |-> v, useClass |-> "", deps |-> <<>>,
     hasDeps |-> TRUE, lifetime |-> "undefined", throws |-> FALSE, arity |-> 0]

ValueProvider(t, v) ==
    [provide |-> t, kind |-> "value", useValue |-> v, useClass |-> "", deps |-> <<>>,
     hasDeps |-> FALSE, lifetime |-> "undefined", throws |-> FALSE, arity |-> 0]

\* A class provider; deps may be left undefined (hasDeps = FALSE).
ClassProvider(t, cls, hasDeps, deps, lt) ==
    [provide |-> t, kind |-> "class", useValue |-> 0, useClass |-> cls, deps |-> deps,
     hasDeps |-> hasDeps, lifetime |-> lt, throws |-> FALSE, arity |-> 0]

\* A factory provider; throws: the factory function throws when called;
\* arity: useFactory.length, the number of declared parameters.
FactoryProvider(t, deps, lt, throws, arity) ==
    [provide |-> t, kind |-> "factory", useValue |-> 0, useClass |-> "", deps |-> deps,
     hasDeps |-> TRUE, lifetime |-> lt, throws |-> throws, arity |-> arity]

\* The provider defineInjectable builds: a factory provider, singleton unless
\* the config object says otherwise, the factory declaring one parameter per dep.
defineInjectable(t, deps, lt) == FactoryProvider(t, deps, lt, FALSE, Len(deps))

\* The providers the environment registers.
Catalogue ==
    { FactoryProvider("A", <<"B">>, "undefined", FALSE, 1),
      defineInjectable("A", <<"C", "B">>, "transient"),
      defineInjectable("A", <<"B", "B">>, "singleton"),
      defineInjectable("A", <<"K">>, "singleton"),
      defineInjectable("A", <<"B", "A">>, "singleton"),
      defineInjectable("B", <<>>, "singleton"),
      defineInjectable("B", <<>>, "transient"),
      defineInjectable("B", <<"A">>, "singleton"),
      FactoryProvider("B", <<>>, "undefined", TRUE, 0),
      ValueProvider("B", -1),
      defineInjectable("C", <<>>, "singleton"),
      defineInjectable("C", <<"C">>, "transient"),
      FactoryProvider("C", <<>>, "undefined", FALSE, 1),
      ClassProvider("K", "K", TRUE, <<"K">>, "undefined") }

Range(s) == {s[i] : i \in 1..Len(s)}

\* No fixture factory was created.
NoFactory == [defaults |-> <<>>, sequence |-> 0]

----------------------------------------------------------------------------
(* DIContainer *)

\* The container state threaded through a resolution.
CurState ==
    [parent |-> parent, providers |-> providers, instances |-> instances,
     objs |-> objs, runs |-> runs, made |-> made, met |-> <<>>, insts |-> ctrlInsts]

EmptyMap(x) == [t \in Tokens |-> x]

\* new DIContainer(parent)
NewContainer(st, par) ==
    [st EXCEPT !.parent = Append(@, par),
               !.providers = Append(@, EmptyMap(NoProvider)),
               !.instances = Append(@, EmptyMap(0)),
               !.runs = Append(@, EmptyMap(0)),
               !.made = Append(@, EmptyMap(0))]

\* A faulty register: the cached instance of the replaced provider is kept.
register_KeepCache(st, c, provider) ==
    [st EXCEPT !.providers[c][provider.provide] = provider,
               !.instances[c][provider.provide] =
                    IF provider.kind = "value" THEN provider.useValue ELSE @,
               !.runs[c][provider.provide] = 0,
               !.made[c][provider.provide] = 0]

\* DIContainer.register
register(st, c, provider) ==
    [st EXCEPT !.providers[c][provider.provide] = provider,
               !.instances[c][provider.provide] =
                    IF provider.kind = "value" THEN provider.useValue ELSE 0,
               !.runs[c][provider.provide] = 0,
               !.made[c][provider.provide] = 0]

\* DIContainer.registerValue
registerValue(st, c, token, value) == register(st, c, ValueProvider(token, value))

\* DIContainer.has
RECURSIVE has(_, _, _)
has(st, c, token) ==
    \/ st.providers[c][token].kind # "none"
    \/ (st.parent[c] # 0 /\ has(st, st.parent[c], token))

\* A faulty lookupProvider: the parent chain is searched before the container itself.
RECURSIVE lookupProvider_ParentFirst(_, _, _)
lookupProvider_ParentFirst(st, c, token) ==
    LET up == IF st.parent[c] = 0 THEN [provider |-> NoProvider, owner |-> 0]
              ELSE lookupProvider_ParentFirst(st, st.parent[c], token)
    IN  IF up.owner # 0 THEN up
        ELSE IF st.providers[c][token].kind # "none"
        THEN [provider |-> st.providers[c][token], owner |-> c]
        ELSE up

\* A faulty lookupProvider: the owner is the root of the chain, whichever
\* container registers the provider.
RECURSIVE RootOf(_, _)
RootOf(st, c) == IF st.parent[c] = 0 THEN c ELSE RootOf(st, st.parent[c])

RECURSIVE lookupProvider_RootOwner(_, _, _)
lookupProvider_RootOwner(st, c, token) ==
    IF st.providers[c][token].kind # "none"
    THEN [provider |-> st.providers[c][token], owner |-> RootOf(st, c)]
    ELSE IF st.parent[c] # 0 THEN lookupProvider_RootOwner(st, st.parent[c], token)
    ELSE [provider |-> NoProvider, owner |-> 0]

\* A faulty lookupProvider: the container asked is reported as the owner.
RECURSIVE lookupProvider_CallerOwner(_, _, _)
lookupProvider_CallerOwner(st, c, token) ==
    IF st.providers[c][token].kind # "none"
    THEN [provider |-> st.providers[c][token], owner |-> c]
    ELSE IF st.parent[c] # 0
         THEN [lookupProvider_CallerOwner(st, st.parent[c], token)
                  EXCEPT !.owner = IF @ = 0 THEN 0 ELSE c]
         ELSE [provider |-> NoProvider, owner |-> 0]

\* A faulty lookupProvider: the parent chain is not searched.
lookupProvider_OwnOnly(st, c, token) ==
    IF st.providers[c][token].kind # "none"
    THEN [provider |-> st.providers[c][token], owner |-> c]
    ELSE [provider |-> [provide |-> "", kind |-> "none", useValue |-> 0, useClass |-> "",
                        deps |-> <<>>, hasDeps |-> FALSE, lifetime |-> "undefined",
                        throws |-> FALSE, arity |-> 0],
          owner |-> 0]

\* DIContainer.lookupProvider; owner = 0 stands for undefined.
RECURSIVE lookupProvider(_, _, _)
lookupProvider(st, c, token) ==
    IF st.providers[c][token].kind # "none"
    THEN [provider |-> st.providers[c][token], owner |-> c]
    ELSE IF st.parent[c] # 0
         THEN lookupProvider(st, st.parent[c], token)
         ELSE [provider |-> NoProvider, owner |-> 0]

Return(st, v) ==
    [st |-> st, ok |-> TRUE, val |-> v, vals |-> <<>>,
     err |-> "none", errTok |-> "", chain |-> <<>>]

Throw(st, e, token, chain) ==
    [st |-> st, ok |-> FALSE, val |-> 0, vals |-> <<>>,
     err |-> e, errTok |-> token, chain |-> chain]

\* A faulty lifetimeOf: the default lifetime is forgotten.
lifetimeOf_NoDefault(provider) == provider.lifetime

\* A faulty lifetimeOf: the declared lifetime is ignored.
lifetimeOf_AlwaysSingleton(provider) == "singleton"

\* const lifetime = provider.lifetime ?? "singleton"
lifetimeOf(provider) ==
    IF provider.lifetime = "undefined" THEN "singleton" ELSE provider.lifetime

RECURSIVE resolve(_, _, _, _)
RECURSIVE resolveDependencies(_, _, _, _)
RECURSIVE instantiateProvider(_, _, _, _, _)

\* DIContainer.resolve; resolving is the insertion-ordered Set of tokens under
\* instantiation.  st.met records the tokens resolve was entered with.
resolve(st0, c, token, resolving) ==
    LET st == [st0 EXCEPT !.met = Append(@, token)]
        lookup == lookupProvider(st, c, token)
        provider == lookup.provider
        owner == lookup.owner
        lifetime == lifetimeOf(provider)
    IN  IF owner = 0
        THEN IF isConstructorToken(token)
             THEN resolve([register(st, c, ClassProvider(token, token, FALSE, <<>>, "undefined"))
                              EXCEPT !.met = st0.met],
                          c, token, resolving)
             ELSE Throw(st, "missing", token,
                        IF resolving = <<>> THEN <<>> ELSE Append(resolving, token))
        ELSE IF provider.kind = "value"
        THEN Return(st, provider.useValue)
        ELSE IF lifetime = "singleton" /\ st.instances[owner][token] # 0
        THEN Return(st, st.instances[owner][token])
        ELSE IF token \in Range(resolving)
        THEN Throw(st, "circular", token, Append(resolving, token))
        ELSE LET r == instantiateProvider(st, c, owner, provider, Append(resolving, token))
             IN  IF r.ok /\ lifetime = "singleton"
                 THEN [r EXCEPT !.st.instances[owner][token] = r.val]
                 ELSE r

\* A faulty resolveDependencies: a dependency that was resolved stays in the
\* resolving set while the ones after it are resolved.
resolveDependencies_KeepResolving(st, c, depTokens, resolving) ==
    IF depTokens = <<>>
    THEN Return(st, 0)
    ELSE LET r == resolve(st, c, Head(depTokens), resolving)
         IN  IF ~r.ok
             THEN r
             ELSE LET rest == resolveDependencies(r.st, c, Tail(depTokens),
                                                  Append(resolving, Head(depTokens)))
                  IN  IF ~rest.ok THEN rest
                      ELSE [rest EXCEPT !.vals = <<r.val>> \o @]

\* A faulty resolveDependencies: the resolved instances come back in reverse.
resolveDependencies_Reversed(st, c, depTokens, resolving) ==
    IF depTokens = <<>>
    THEN Return(st, 0)
    ELSE LET r == resolve(st, c, Head(depTokens), resolving)
         IN  IF ~r.ok
             THEN r
             ELSE LET rest == resolveDependencies(r.st, c, Tail(depTokens), resolving)
                  IN  IF ~rest.ok THEN rest
                      ELSE [rest EXCEPT !.vals = @ \o <<r.val>>]

\* DIContainer.resolveDependencies: depTokens.map(dep => this.resolve(dep, resolving))
resolveDependencies(st, c, depTokens, resolving) ==
    IF depTokens = <<>>
    THEN Return(st, 0)
    ELSE LET r == resolve(st, c, Head(depTokens), resolving)
         IN  IF ~r.ok
             THEN r
             ELSE LET rest == resolveDependencies(r.st, c, Tail(depTokens), resolving)
                  IN  IF ~rest.ok THEN rest
                      ELSE [rest EXCEPT !.vals = <<r.val>> \o @]

\* DIContainer.instantiateProvider; owner is passed only to keep the counters
\* runs and made of the provider's registration.
instantiateProvider(st, c, owner, provider, resolving) ==
    LET declaredDeps ==
            IF provider.kind = "class"
            THEN IF provider.hasDeps THEN provider.deps ELSE getInjectTokens(provider.useClass)
            ELSE provider.deps
        d == resolveDependencies(st, c, declaredDeps, resolving)
        t == provider.provide
    IN  IF ~d.ok
        THEN d
        ELSE IF provider.kind = "factory" /\ provider.arity > 0
                /\ Len(d.vals) # provider.arity
        THEN Throw(d.st, "mismatch", t, <<>>)
        ELSE IF provider.throws
        THEN Throw([d.st EXCEPT !.runs[owner][t] = @ + 1], "failed", t, <<>>)
        ELSE LET obj == [tok |-> t, args |-> d.vals]
                 st2 == [d.st EXCEPT !.objs = Append(@, obj),
                                     !.runs[owner][t] = @ + 1,
                                     !.made[owner][t] = @ + 1]
             IN  Return(st2, Len(st2.objs))

\* DIContainer.get
get(st, c, token) == resolve([st EXCEPT !.met = <<>>], c, token, <<>>)

----------------------------------------------------------------------------
(* defineController, defineModule *)

\* F applied to the value of e, which is evaluated once.
Bind(e, F(_)) == CHOOSE y \in {F(x) : x \in {e}} : TRUE

\* The state after a call threw: the container it had created is unreachable,
\* and so are the controller definitions built before the throw.
Thrown(r, insts) ==
    [r EXCEPT !.st.parent = SubSeq(@, 1, Len(@) - 1),
              !.st.providers = SubSeq(@, 1, Len(@) - 1),
              !.st.instances = SubSeq(@, 1, Len(@) - 1),
              !.st.runs = SubSeq(@, 1, Len(@) - 1),
              !.st.made = SubSeq(@, 1, Len(@) - 1),
              !.st.insts = insts]

\* The factory defineController builds, called with a container: setup(routeBuilder,
\* container) runs, and a setup that resolves a service at controller creation
\* time calls container.get(def.uses); by names the caller.
controllerFactory(st, def, d, c, by) ==
    Bind(IF def.uses = "" THEN Return(st, 0) ELSE get(st, c, def.uses), LAMBDA r :
        IF ~r.ok THEN r
        ELSE [r EXCEPT !.st.insts =
                  Append(@, [def |-> d, prefix |-> def.prefix, container |-> c,
                             captured |-> r.val, by |-> by])])

\* defineController(prefix, setup): builds the factory and the default definition
\* with factory(new DIContainer()).
defineController(st, def, d) ==
    Bind(NewContainer(st, 0), LAMBDA st1 :
        Bind(controllerFactory(st1, def, d, Len(st1.parent), "defineController"), LAMBDA r :
            IF r.ok THEN r ELSE Thrown(r, st.insts)))

\* A faulty importedTokens: every provider of the imported module is taken, exported or not.
importedTokens_Providers(m) == [i \in 1..Len(m.providers) |-> m.providers[i].provide]

\* importedModule.exports
importedTokens(m) == m.exports

\* A faulty shareInstance: the importer registers the exporter's provider, not its instance.
shareInstance_Provider(st, c, m, token) ==
    LET p == st.providers[m.container][token]
    IN  Return([st EXCEPT !.providers[c][token] = p,
                          !.instances[c][token] =
                               IF p.kind = "value" THEN p.useValue ELSE 0], 0)

\* const instance = importedModule.container.get(exportedToken);
\* container.registerValue(exportedToken, instance)
shareInstance(st, c, m, token) ==
    Bind(get(st, m.container, token), LAMBDA r :
        IF ~r.ok THEN r ELSE Return(registerValue(r.st, c, token, r.val), 0))

\* importedModule.exports.forEach(...)
RECURSIVE importExports(_, _, _, _)
importExports(st, c, m, toks) ==
    IF toks = <<>> THEN Return(st, 0)
    ELSE IF has(st, m.container, Head(toks))
         THEN Bind(shareInstance(st, c, m, Head(toks)), LAMBDA r :
                  IF ~r.ok THEN r ELSE importExports(r.st, c, m, Tail(toks)))
         ELSE importExports(st, c, m, Tail(toks))

\* imports.forEach(...); mods are the module definitions made so far
RECURSIVE importModules(_, _, _, _)
importModules(st, mods, c, imps) ==
    IF imps = <<>> THEN Return(st, 0)
    ELSE Bind(importExports(st, c, mods[Head(imps)], importedTokens(mods[Head(imps)])),
              LAMBDA r : IF ~r.ok THEN r ELSE importModules(r.st, mods, c, Tail(imps)))

\* DIContainer.registerMany
RECURSIVE registerMany(_, _, _)
registerMany(st, c, provs) ==
    IF provs = <<>> THEN st
    ELSE Bind(register(st, c, Head(provs)), LAMBDA st1 : registerMany(st1, c, Tail(provs)))

\* controllers.map(controllerFactory => controllerFactory(container))
RECURSIVE instantiateControllers(_, _, _, _)
instantiateControllers(st, defs, c, ctrls) ==
    IF ctrls = <<>> THEN Return(st, 0)
    ELSE Bind(controllerFactory(st, defs[Head(ctrls)], Head(ctrls), c, "defineModule"),
              LAMBDA r : IF ~r.ok THEN r ELSE instantiateControllers(r.st, defs, c, Tail(ctrls)))

\* defineModule(config); config.imports and config.controllers index mods and defs.
\* The result carries the ModuleDefinition in the field module.
defineModule(st, mods, defs, config) ==
    LET c == Len(st.parent) + 1
        first == Len(st.insts)
        def == [container |-> c, imports |-> config.imports, exports |-> config.exports,
                providers |-> config.providers,
                controllers |-> [i \in 1..Len(config.controllers) |-> first + i]]
    IN  Bind(NewContainer(st, 0), LAMBDA st1 :
        Bind(importModules(st1, mods, c, config.imports), LAMBDA r1 :
            IF ~r1.ok THEN [module |-> def] @@ Thrown(r1, st.insts)
            ELSE Bind(registerMany(r1.st, c, config.providers), LAMBDA st2 :
                 Bind(instantiateControllers(st2, defs, c, config.controllers), LAMBDA r3 :
                     IF ~r3.ok THEN [module |-> def] @@ Thrown(r3, st.insts)
                     ELSE [module |-> def] @@ r3))))

----------------------------------------------------------------------------
(* Operations of the container specification *)

Containers == 1..Len(parent)

WithinBounds(st) ==
    /\ Len(st.objs) <= MaxObjs
    /\ \A c \in 1..Len(st.parent), t \in Tokens : st.runs[c][t] <= MaxRuns

Commit(st) ==
    /\ parent' = st.parent
    /\ providers' = st.providers
    /\ instances' = st.instances
    /\ objs' = st.objs
    /\ runs' = st.runs
    /\ made' = st.made
    /\ ctrlInsts' = st.insts

\* container.register(provider)
Register(c, provider) ==
    /\ nRegs < MaxRegs
    /\ Commit(register(CurState, c, provider))
    /\ nRegs' = nRegs + 1
    /\ UNCHANGED <<injectables, factory, calls, modules, ctrlDefs, apps, lastErr>>

\* container.get(token)
Get(c, token) ==
    LET r == get(CurState, c, token)
    IN  /\ WithinBounds(r.st)
        /\ Commit(r.st)
        /\ UNCHANGED <<injectables, factory, calls, nRegs, modules, ctrlDefs, apps, lastErr>>

NoError == [op |-> "", err |-> "none", errTok |-> ""]

NoContainers ==
    [parent |-> <<>>, providers |-> <<>>, instances |-> <<>>, objs |-> <<>>,
     runs |-> <<>>, made |-> <<>>, met |-> <<>>, insts |-> <<>>]

\* const root = new DIContainer(); const child = root.createChild()
createChild(st, c) == NewContainer(st, c)

Init ==
    LET st == createChild(NewContainer(NoContainers, 0), 1)
    IN  /\ parent = st.parent
        /\ providers = st.providers
        /\ instances = st.instances
        /\ runs = st.runs
        /\ made = st.made
        /\ objs = st.objs
        /\ ctrlInsts = st.insts
        /\ nRegs = 0
        /\ modules = <<>>
        /\ ctrlDefs = <<>>
        /\ apps = <<>>
        /\ lastErr = NoError
        /\ injectables = <<>>
        /\ factory = NoFactory
        /\ calls = <<>>

Next ==
    \/ \E c \in Containers, p \in Catalogue : Register(c, p)
    \/ \E c \in Containers, t \in Tokens : Get(c, t)

Spec == Init /\ [][Next]_vars

----------------------------------------------------------------------------
(* Vocabulary of the properties, defined on the registry itself *)

Classes == {"K"}

Min(S) == CHOOSE x \in S : \A y \in S : x <= y

\* c, parent of c, ..., root
RECURSIVE Ancestry(_)
Ancestry(c) == IF c = 0 THEN <<>> ELSE <<c>> \o Ancestry(parent[c])

\* The nearest container on c's parent chain that registers t, 0 if none does.
Nearest(c, t) ==
    LET ch == Ancestry(c)
        idx == {i \in 1..Len(ch) : providers[ch[i]][t].kind # "none"}
    IN  IF idx = {} THEN 0 ELSE ch[Min(idx)]

ProviderOf(c, t) == IF Nearest(c, t) = 0 THEN NoProvider ELSE providers[Nearest(c, t)][t]

IsBuilt(p) == p.kind \in {"class", "factory"}
IsSingleton(p) == IsBuilt(p) /\ p.lifetime \in {"singleton", "undefined"}
IsTransient(p) == IsBuilt(p) /\ p.lifetime = "transient"

\* The factory throws, or declares another number of parameters than deps.
Fails(p) == p.throws \/ (p.kind = "factory" /\ p.arity > 0 /\ Len(p.deps) # p.arity)

\* The deps declaration a get() through c follows at token t.
DeclaredDeps(c, t) ==
    LET p == ProviderOf(c, t)
    IN  IF p.kind = "none" THEN (IF t \in Classes THEN getInjectTokens(t) ELSE <<>>)
        ELSE IF p.kind = "class"
             THEN (IF p.hasDeps THEN p.deps ELSE getInjectTokens(p.useClass))
        ELSE p.deps

\* Tokens reachable from the set from along deps declarations, stepping only onto S.
RECURSIVE ReachIn(_, _, _)
ReachIn(c, S, from) ==
    LET nxt == from \cup {u \in S : \E t \in from : u \in Range(DeclaredDeps(c, t))}
    IN  IF nxt = from THEN from ELSE ReachIn(c, S, nxt)

Reach(c, T) == ReachIn(c, Tokens, {T})

\* t would be instantiated by a get() through c: it has a class or factory
\* provider (or is a class that would be auto-registered) and no cached instance.
Live(c, t) ==
    LET p == ProviderOf(c, t)
    IN  IF p.kind = "none" THEN t \in Classes
        ELSE IsBuilt(p) /\ ~(IsSingleton(p) /\ instances[Nearest(c, t)][t] # 0)

\* t lies on a cycle of deps declarations made of live tokens only.
OnLiveCycle(c, t) ==
    /\ Live(c, t)
    /\ \E u \in Range(DeclaredDeps(c, t)) :
          Live(c, u) /\ t \in ReachIn(c, {x \in Tokens : Live(c, x)}, {u})

----------------------------------------------------------------------------
(* C1: singletons *)

\* What every get() of a cached singleton must do, and what the first one must do.
SingletonGets(c, t) ==
    \A d \in Containers :
        Nearest(d, t) = c =>
            LET r == get(CurState, d, t)
            IN  /\ r.ok => r.val = r.st.instances[c][t]
                /\ instances[c][t] # 0 =>
                      /\ r.ok
                      /\ r.val = instances[c][t]
                      /\ r.st.runs[c][t] = runs[c][t]

\* C1 as stated: for a singleton class/factory provider every successful get()
\* returns the same instance and the factory/constructor runs at most once
\* while the token is not registered again.
C1_SingletonRunsOnce ==
    \A c \in Containers, t \in Tokens :
        IsSingleton(providers[c][t]) =>
            /\ runs[c][t] <= 1
            /\ SingletonGets(c, t)

\* C1 amended: every successful get() returns the same instance and the
\* factory/constructor returns an instance at most once while the token is not
\* registered again; a factory that throws is run again by the next get().
C1_SingletonMadeOnce ==
    \A c \in Containers, t \in Tokens :
        IsSingleton(providers[c][t]) =>
            /\ made[c][t] <= 1
            /\ (made[c][t] = 1) <=> (instances[c][t] # 0)
            /\ instances[c][t] # 0 => runs[c][t] = 1
            /\ SingletonGets(c, t)

\* A singleton B was injected twice into one instance of A, built once.
C1_Witness ==
    \E c \in Containers :
        /\ IsSingleton(providers[c]["B"])
        /\ made[c]["B"] = 1
        /\ \E i \in 1..Len(objs) :
              objs[i].tok = "A" /\ objs[i].args = <<instances[c]["B"], instances[c]["B"]>>

----------------------------------------------------------------------------
(* C2: transients *)

\* C2: every get() of a transient provider's token that returns, returns an
\* instance that was built by a new run of the factory during that get(), so
\* never an instance an earlier get() returned; nothing is cached for it.
C2_TransientFresh ==
    \A c \in Containers, t \in Tokens :
        IsTransient(providers[c][t]) =>
            /\ instances[c][t] = 0
            /\ \A d \in Containers :
                  Nearest(d, t) = c =>
                      LET r == get(CurState, d, t)
                      IN  r.ok =>
                            /\ r.val > Len(objs)
                            /\ r.val <= Len(r.st.objs)
                            /\ r.st.objs[r.val].tok = t
                            /\ r.st.runs[c][t] > runs[c][t]

\* A transient provider has been resolved twice and built two instances.
C2_Witness ==
    \E c \in Containers, t \in Tokens :
        /\ IsTransient(providers[c][t])
        /\ made[c][t] = 2
        /\ \E i, j \in 1..Len(objs) : i # j /\ objs[i].tok = t /\ objs[j].tok = t

----------------------------------------------------------------------------
(* C3: cycles *)

\* A cycle of live tokens is reachable from T.
CycleReachable(c, T) == \E t \in Reach(c, T) : OnLiveCycle(c, t)

NothingElseInTheWay(c, T, t) ==
    /\ \A u \in Reach(c, T) :
          /\ ProviderOf(c, u).kind # "none" \/ u \in Classes
          /\ ~Fails(ProviderOf(c, u))
    /\ \A u \in Reach(c, T) : t \in Reach(c, u) => Live(c, u)

----------------------------------------------------------------------------
(* C4: missing providers *)

\* Positions, in the order resolve was entered, of string/symbol tokens that no
\* container on c's parent chain registers.
Unprovided(c, met) ==
    {i \in 1..Len(met) : met[i] \notin Classes /\ ~has(CurState, c, met[i])}

\* C4: get(T) throws "No provider found" exactly when the resolution meets a
\* string or symbol token without a provider in the container or its
\* ancestors, and the error names the first such token, T itself included.
C4_MissingProviderNamed ==
    \A c \in Containers, T \in Tokens :
        LET r == get(CurState, c, T)
            miss == Unprovided(c, r.st.met)
        IN  /\ miss # {} => r.err = "missing" /\ r.errTok = r.st.met[Min(miss)]
            /\ r.err = "missing" => miss # {}
            /\ (T \notin Classes /\ Nearest(c, T) = 0) => r.err = "missing" /\ r.errTok = T
            /\ r.ok => \A u \in Range(r.st.met) : Nearest(c, u) # 0 \/ u \in Classes

\* A get() through the child finds A in the root, and fails on A's dependency,
\* which neither the child nor the root provides.
C4_Witness ==
    \E u \in Tokens \ {"A"} :
        LET r == get(CurState, 2, "A")
        IN  /\ Nearest(2, "A") = 1
            /\ r.err = "missing"
            /\ r.errTok = u
            /\ ~has(CurState, 2, u)
            /\ r.chain = <<"A", u>>

----------------------------------------------------------------------------
(* The module specification: modules are defined one after the other, each
   importing modules defined before it. *)

Bs == defineInjectable("B", <<>>, "singleton")
Bt == defineInjectable("B", <<>>, "transient")
AB == defineInjectable("A", <<"B">>, "singleton")
ABA == defineInjectable("A", <<"B", "A">>, "singleton")

\* The providers and exports of the module configurations.
ModuleShapes ==
    { [providers |-> <<Bs>>, exports |-> <<"B">>],
      [providers |-> <<Bt>>, exports |-> <<"B">>],
      [providers |-> <<>>, exports |-> <<"B">>],
      [providers |-> <<>>, exports |-> <<>>],
      [providers |-> <<AB>>, exports |-> <<"A", "B">>],
      [providers |-> <<AB, Bs>>, exports |-> <<"A">>],
      [providers |-> <<ABA, Bs>>, exports |-> <<>>] }

\* The imports lists: at most two of the n modules defined so far.
ImportLists(n) ==
    {<<>>} \cup {<<i>> : i \in 1..n}
           \cup {<<i, j>> : <<i, j>> \in {x \in (1..n) \X (1..n) : x[1] # x[2]}}

InitEmpty ==
    /\ parent = <<>>
    /\ providers = <<>>
    /\ instances = <<>>
    /\ runs = <<>>
    /\ made = <<>>
    /\ objs = <<>>
    /\ ctrlInsts = <<>>
    /\ nRegs = 0
    /\ modules = <<>>
    /\ ctrlDefs = <<>>
    /\ apps = <<>>
    /\ lastErr = NoError
    /\ injectables = <<>>
    /\ factory = NoFactory
    /\ calls = <<>>

\* const m = defineModule(config)
DefineModule(config) ==
    /\ Len(modules) < MaxModules
    /\ \E r \in {defineModule(CurState, modules, ctrlDefs, config)} :
        /\ WithinBounds(r.st)
        /\ Commit(r.st)
        /\ modules' = IF r.ok THEN Append(modules, r.module) ELSE modules
        /\ lastErr' = IF r.ok THEN lastErr ELSE [op |-> "defineModule", err |-> r.err, errTok |-> r.errTok]
        /\ UNCHANGED <<injectables, factory, calls, nRegs, ctrlDefs, apps>>

NextModules ==
    \/ \E imps \in ImportLists(Len(modules)), shape \in ModuleShapes :
          DefineModule([imports |-> imps, exports |-> shape.exports,
                        providers |-> shape.providers, controllers |-> <<>>])

SpecModules == InitEmpty /\ [][NextModules]_vars

----------------------------------------------------------------------------
(* Vocabulary of the module properties *)

Modules == 1..Len(modules)

OwnTokens(m) == {modules[m].providers[i].provide : i \in 1..Len(modules[m].providers)}

OwnProvider(m, t) ==
    LET p == modules[m].providers
    IN  p[CHOOSE i \in 1..Len(p) : p[i].provide = t /\ \A j \in (i + 1)..Len(p) : p[j].provide # t]

Exports(m) == Range(modules[m].exports)

Imports(m) == Range(modules[m].imports)

moduleGet(m, t) == get(CurState, modules[m].container, t)

moduleHas(m, t) == has(CurState, modules[m].container, t)

\* C5: every provider of a module that defineModule returned has been resolved:
\* none of them has a missing provider or a circular dependency left to be
\* found by a later get().
C5_ResolvedAtCreation ==
    \A m \in Modules : \A t \in OwnTokens(m) :
        moduleGet(m, t).err \notin {"missing", "circular"}

\* C6: a module's container has a provider for a token that is not one of the
\* module's own providers only if a directly imported module lists the token
\* in its exports and has a provider for it.
C6_ImportVisibility ==
    \A m \in Modules : \A t \in Tokens \ OwnTokens(m) :
        moduleHas(m, t) =>
            \E e \in Imports(m) : t \in Exports(e) /\ moduleHas(e, t)

\* A module imports a module that keeps a provider private, and that imports
\* a module whose export it does not re-export.
C6_Witness ==
    \E m \in Modules, e \in Modules, f \in Modules, t \in Tokens, u \in Tokens :
        /\ e \in Imports(m) /\ f \in Imports(e)
        /\ t \in OwnTokens(e) \ Exports(e) /\ ~moduleHas(m, t)
        /\ t \in Exports(f) /\ moduleHas(f, t)
        /\ u \in Exports(e) /\ moduleHas(e, u) /\ moduleHas(m, u)

ExportsSingleton(e, t) ==
    /\ t \in OwnTokens(e) \cap Exports(e)
    /\ lifetimeOf(OwnProvider(e, t)) = "singleton"

\* m imports t of e directly, or from a module that lists t in its exports and
\* imports it from e in this way.
RECURSIVE ImportsThrough(_, _, _)
ImportsThrough(m, e, t) ==
    \E i \in Imports(m) :
        /\ t \in Exports(i)
        /\ i = e \/ ImportsThrough(i, e, t)

SameObject(m, e, t) ==
    /\ moduleGet(m, t).ok
    /\ moduleGet(e, t).ok
    /\ moduleGet(m, t).val = moduleGet(e, t).val

LastExporter(m, t) ==
    LET imps == modules[m].imports
        S == {k \in 1..Len(imps) : t \in Exports(imps[k]) /\ moduleHas(imps[k], t)}
    IN  IF S = {} THEN 0 ELSE imps[CHOOSE k \in S : \A j \in S : j <= k]

\* m takes t from e: m and the modules in between register no provider of
\* their own for t, and each takes t from the last of its imports that
\* exports it.
RECURSIVE TakesFrom(_, _, _)
TakesFrom(m, e, t) ==
    /\ t \notin OwnTokens(m)
    /\ LastExporter(m, t) # 0
    /\ LastExporter(m, t) = e \/ TakesFrom(LastExporter(m, t), e, t)

----------------------------------------------------------------------------
(* createApp, createTestingModule *)

\* A faulty addController: allControllers is a list, not a Set.
addController_Again(all, ctrl) == Append(all, ctrl)

\* allControllers.add(controller): a Set keeps the first insertion only
addController(all, ctrl) ==
    IF ctrl \in Range(all) THEN all ELSE Append(all, ctrl)

RECURSIVE addControllers(_, _)
addControllers(all, ctrls) ==
    IF ctrls = <<>> THEN all
    ELSE addControllers(addController(all, Head(ctrls)), Tail(ctrls))

RECURSIVE collectControllers(_, _, _)
RECURSIVE collectImports(_, _, _)
\* collectControllers(module): own controllers first, then the imports in order
collectControllers(mods, m, all) ==
    collectImports(mods, mods[m].imports, addControllers(all, mods[m].controllers))

collectImports(mods, imps, all) ==
    IF imps = <<>> THEN all
    ELSE collectImports(mods, Tail(imps), collectControllers(mods, Head(imps), all))

\* A faulty useMiddleware: the middleware are registered last to first.
useMiddleware_Reversed(stack, middleware) ==
    stack \o [i \in 1..Len(middleware) |->
                [method |-> "use", path |-> "*",
                 mw |-> middleware[Len(middleware) + 1 - i], ctrl |-> 0]]

\* middleware.forEach(mw => app.use("*", mw))
useMiddleware(stack, middleware) ==
    stack \o [i \in 1..Len(middleware) |->
                [method |-> "use", path |-> "*", mw |-> middleware[i], ctrl |-> 0]]

\* allControllers.forEach(controller => app.route(controller.prefix, controller.app))
mountControllers(stack, insts, all) ==
    stack \o [i \in 1..Len(all) |->
                [method |-> "route", path |-> insts[all[i]].prefix, mw |-> "",
                 ctrl |-> all[i]]]

\* The members of a Hono instance that the program uses or names.
HonoMethods == {"fetch", "request", "onError", "use", "route", "mount", "basePath"}

\* type KahelApp = Omit<Hono, 'use' | 'route' | 'mount' | 'basePath'>
KahelApp == HonoMethods \ {"use", "route", "mount", "basePath"}

\* createApp(rootModule, {middleware}): stack lists the handlers of the Hono app
\* in the order they are registered, the global middleware first, then the
\* controllers collected from the module tree. What is returned is the Hono
\* instance itself (return app as KahelApp), with all its members.
createApp(mods, insts, rootModule, middleware) ==
    [root |-> rootModule,
     methods |-> HonoMethods,
     stack |-> mountControllers(useMiddleware(<<>>, middleware), insts,
                                collectControllers(mods, rootModule, <<>>))]

\* createTestingModule(config)
createTestingModule(st, mods, defs, config) == defineModule(st, mods, defs, config)

\* testing.override(token, value)
override(st, mods, m, token, value) == registerValue(st, mods[m].container, token, value)

----------------------------------------------------------------------------
(* The application specification: with the controllers defined, modules are
   defined one after the other, each importing modules defined before it,
   and applications are created from them. *)

\* The controllers: setup resolves def.uses with deps.get(), or nothing.
ControllerCatalogue ==
    { [prefix |-> "/a", uses |-> ""],
      [prefix |-> "/b", uses |-> "B"],
      [prefix |-> "/k", uses |-> "K"] }

Kc == ClassProvider("K", "K", FALSE, <<>>, "undefined")

\* The providers and exports of the module configurations.
AppShapes ==
    { [providers |-> <<Kc>>, exports |-> <<>>] }

\* The controllers lists: the controllers defined so far, in the order of
\* their definition, each taken or left out.
ControllerLists(n) ==
    {<<>>} \cup {<<i>> : i \in 1..n}
           \cup {<<i, j>> : <<i, j>> \in {x \in (1..n) \X (1..n) : x[1] < x[2]}}

ModuleConfigs(shapes) ==
    { [imports |-> imps, exports |-> shape.exports, providers |-> shape.providers,
       controllers |-> ctrls] :
          imps \in ImportLists(Len(modules)), shape \in shapes,
          ctrls \in ControllerLists(Len(ctrlDefs)) }

\* The middleware option of createApp: omitted, or two middleware.
Middlewares == {<<>>, <<"mw2", "mw1">>}

\* The controllers of the application, defined before its modules.
AppControllers == <<[prefix |-> "/a", uses |-> ""], [prefix |-> "/k", uses |-> "K"]>>

InitApp ==
    \E st \in {defineController(defineController(NoContainers, AppControllers[1], 1).st,
                                  AppControllers[2], 2).st} :
        /\ parent = st.parent
        /\ providers = st.providers
        /\ instances = st.instances
        /\ runs = st.runs
        /\ made = st.made
        /\ objs = st.objs
        /\ ctrlInsts = st.insts
        /\ nRegs = 0
        /\ modules = <<>>
        /\ ctrlDefs = AppControllers
        /\ apps = <<>>
        /\ lastErr = NoError
        /\ injectables = <<>>
        /\ factory = NoFactory
        /\ calls = <<>>

\* const m = defineModule(config)
DefineAppModule(config) ==
    /\ Len(modules) < MaxModules
    /\ \E r \in {defineModule(CurState, modules, ctrlDefs, config)} :
        /\ WithinBounds(r.st)
        /\ Commit(r.st)
        /\ modules' = IF r.ok THEN Append(modules, r.module) ELSE modules
        /\ lastErr' = IF r.ok THEN lastErr ELSE [op |-> "defineModule", err |-> r.err, errTok |-> r.errTok]
        /\ UNCHANGED <<injectables, factory, calls, nRegs, ctrlDefs, apps>>

\* app = createApp(m, {middleware})
CreateApp(m, middleware) ==
    /\ apps' = <<createApp(modules, ctrlInsts, m, middleware)>>
    /\ UNCHANGED <<injectables, factory, calls, parent, providers, instances, objs, runs, made, nRegs, modules,
                   ctrlDefs, ctrlInsts, lastErr>>

NextApp ==
    \/ \E config \in ModuleConfigs(AppShapes) : DefineAppModule(config)
    \/ \E m \in 1..Len(modules), middleware \in Middlewares : CreateApp(m, middleware)

SpecApp == InitApp /\ [][NextApp]_vars

----------------------------------------------------------------------------
(* The testing specification: controllers are defined, testing modules are
   created with them, their services are overridden, and the application
   under test is created. *)

\* The providers and exports of the testing module configurations.
TestShapes ==
    { [providers |-> <<Bs, Kc>>, exports |-> <<"B">>] }

\* The services a test overrides: the ones its module provides.
Mocked == {"B", "K"}

\* The mock object given to override().
MockObject == -2

\* const ctl = defineController(prefix, setup)
DefineController(def) ==
    /\ Len(ctrlDefs) < MaxCtrlDefs
    /\ \E r \in {defineController(CurState, def, Len(ctrlDefs) + 1)} :
        /\ WithinBounds(r.st)
        /\ Commit(r.st)
        /\ ctrlDefs' = IF r.ok THEN Append(ctrlDefs, def) ELSE ctrlDefs
        /\ lastErr' = IF r.ok THEN lastErr ELSE [op |-> "defineController", err |-> r.err, errTok |-> r.errTok]
        /\ UNCHANGED <<injectables, factory, calls, nRegs, modules, apps>>

\* const testing = createTestingModule(config)
CreateTestingModule(config) ==
    /\ Len(modules) < MaxTests
    /\ \E r \in {createTestingModule(CurState, modules, ctrlDefs, config)} :
        /\ WithinBounds(r.st)
        /\ Commit(r.st)
        /\ modules' = IF r.ok THEN Append(modules, r.module) ELSE modules
        /\ lastErr' = IF r.ok THEN lastErr ELSE [op |-> "createTestingModule", err |-> r.err, errTok |-> r.errTok]
        /\ UNCHANGED <<injectables, factory, calls, nRegs, ctrlDefs, apps>>

\* testing.override(token, mock)
Override(m, token) ==
    /\ nRegs < MaxRegs
    /\ nRegs' = nRegs + 1
    /\ Commit(override(CurState, modules, m, token, MockObject))
    /\ UNCHANGED <<injectables, factory, calls, modules, ctrlDefs, apps, lastErr>>

\* app = testing.createApp()
CreateTestingApp(m) ==
    /\ apps' = <<createApp(modules, ctrlInsts, m, <<>>)>>
    /\ UNCHANGED <<injectables, factory, calls, parent, providers, instances, objs, runs, made, nRegs, modules,
                   ctrlDefs, ctrlInsts, lastErr>>

\* app.use("*", mw) on the app that testing.createApp() returned
AppUse(mw) ==
    /\ apps # <<>>
    /\ "use" \in apps[1].methods
    /\ Cardinality({i \in 1..Len(apps[1].stack) : apps[1].stack[i].method = "use"}) < MaxUses
    /\ apps' = <<[apps[1] EXCEPT !.stack = useMiddleware(@, <<mw>>)]>>
    /\ UNCHANGED <<injectables, factory, calls, parent, providers, instances, objs, runs, made, nRegs, modules,
                   ctrlDefs, ctrlInsts, lastErr>>

NextTest ==
    \/ \E def \in ControllerCatalogue : DefineController(def)
    \/ \E config \in ModuleConfigs(TestShapes) : CreateTestingModule(config)
    \/ \E m \in 1..Len(modules), token \in Mocked : Override(m, token)
    \/ \E m \in 1..Len(modules) : CreateTestingApp(m)
    \/ \E mw \in {"mw1"} : AppUse(mw)

SpecTest == InitEmpty /\ [][NextTest]_vars

----------------------------------------------------------------------------
(* Properties of controllers, testing modules and applications *)

\* C8: defineController does not run setup: no controller instance comes
\* from defineController itself (setup run against the empty default
\* container), and defineController does not throw what setup's deps.get()
\* throws.
C8_SetupNotRunAtDefinition ==
    /\ \A i \in 1..Len(ctrlInsts) : ctrlInsts[i].by # "defineController"
    /\ lastErr.op # "defineController"

\* The controller instances app.route() mounts, in order.
Mounted(app) ==
    LET S == {i \in 1..Len(app.stack) : app.stack[i].method = "route"}
    IN  [k \in 1..Cardinality(S) |->
            app.stack[CHOOSE i \in S : Cardinality({j \in S : j <= i}) = k]]

IsMock(m, t) ==
    LET c == modules[m].container
    IN  providers[c][t].kind = "value" /\ providers[c][t].useValue = MockObject

\* C9: when a service of a testing module has been overridden with a mock,
\* the controllers of the application testing.createApp() returns hold the
\* mock, if their setup resolved the service with deps.get().
C9_ControllersGetTheMock ==
    \A m \in Modules, t \in Tokens :
        IsMock(m, t) =>
            LET app == createApp(modules, ctrlInsts, m, <<>>)
            IN  \A k \in 1..Len(Mounted(app)) :
                    LET ctl == ctrlInsts[Mounted(app)[k].ctrl]
                    IN  ctrlDefs[ctl.def].uses = t /\ ctl.container = modules[m].container
                            => ctl.captured = MockObject

\* The modules reachable from m through imports, m included.
RECURSIVE Reachable(_)
Reachable(m) == {m} \cup UNION {Reachable(i) : i \in Imports(m)}

ControllersOf(M) == UNION {Range(modules[m].controllers) : m \in M}

\* C10: the application mounts every controller of the root module and of
\* the modules reachable from it, each exactly once and at its own prefix, and
\* mounts nothing else.
C10_EveryControllerOnce ==
    \A a \in 1..Len(apps) :
        LET mounted == Mounted(apps[a])
            want == ControllersOf(Reachable(apps[a].root))
        IN  /\ \A ctl \in want :
                Cardinality({k \in 1..Len(mounted) : mounted[k].ctrl = ctl}) = 1
            /\ \A k \in 1..Len(mounted) :
                /\ mounted[k].ctrl \in want
                /\ mounted[k].path = ctrlDefs[ctrlInsts[mounted[k].ctrl].def].prefix

\* An application whose root reaches a module with a controller through two
\* import paths, and mounts controllers at two prefixes.
C10_Witness ==
    \E a \in 1..Len(apps) :
        LET root == apps[a].root
            mounted == Mounted(apps[a])
        IN  /\ \E i \in Imports(root), j \in Imports(root) :
                /\ i # j /\ i \in Imports(j)
                /\ modules[i].controllers # <<>>
                /\ modules[root].controllers # <<>>
            /\ \E k \in 1..Len(mounted), l \in 1..Len(mounted) :
                mounted[k].path # mounted[l].path

\* The entries of the stack that app.use() registered, in order.
Used(app) ==
    LET S == {i \in 1..Len(app.stack) : app.stack[i].method = "use"}
    IN  [k \in 1..Cardinality(S) |->
            app.stack[CHOOSE i \in S : Cardinality({j \in S : j <= i}) = k]]

\* C11: createApp registers the middleware of its middleware option for all
\* paths, in array order, and before it mounts any controller: the stack of
\* the app it returns starts with them, and only routes follow.
C11_MiddlewareFirst ==
    [][\A m \in 1..Len(modules), middleware \in Middlewares :
          apps' # apps /\ apps'[1].root = m /\ CreateApp(m, middleware) =>
              LET stack == apps'[1].stack
                  n == Len(middleware)
              IN  /\ Len(stack) >= n
                  /\ \A i \in 1..n :
                        /\ stack[i].method = "use"
                        /\ stack[i].path = "*"
                        /\ stack[i].mw = middleware[i]
                  /\ \A i \in (n + 1)..Len(stack) : stack[i].method = "route"]_vars

\* An app with two middleware, registered in another order than that of
\* their names, and two controllers mounted after them.
C11_Witness ==
    \E a \in 1..Len(apps) :
        /\ Len(Used(apps[a])) = 2
        /\ Used(apps[a])[1].mw = "mw2" /\ Used(apps[a])[2].mw = "mw1"
        /\ Len(Mounted(apps[a])) >= 2

\* C12: the app createApp returns is a restricted view of the router: its
\* members are those of the KahelApp type, without use, route, mount and
\* basePath, and no middleware is registered on it after its controllers
\* were mounted.
C12_RestrictedView ==
    \A a \in 1..Len(apps) :
        /\ apps[a].methods = KahelApp
        /\ \A i \in 1..Len(apps[a].stack), j \in 1..Len(apps[a].stack) :
              apps[a].stack[i].method = "route" /\ i < j
                  => apps[a].stack[j].method = "route"

----------------------------------------------------------------------------
(* The container tree specification: a root container, a child of it, and a
   third container that is a child of either; providers are registered in
   them and tokens are resolved through them. *)

TreeCatalogue ==
    { defineInjectable("A", <<"B">>, "singleton"),
      defineInjectable("A", <<"B">>, "transient"),
      defineInjectable("B", <<>>, "singleton"),
      defineInjectable("B", <<>>, "transient"),
      ValueProvider("B", -1) }

\* const root = new DIContainer(); const child = root.createChild();
\* const third = root.createChild() or child.createChild()
InitTree ==
    \E p \in {1, 2} :
        \E st \in {createChild(createChild(NewContainer(NoContainers, 0), 1), p)} :
            /\ parent = st.parent
            /\ providers = st.providers
            /\ instances = st.instances
            /\ runs = st.runs
            /\ made = st.made
            /\ objs = st.objs
            /\ ctrlInsts = st.insts
            /\ nRegs = 0
            /\ modules = <<>>
            /\ ctrlDefs = <<>>
            /\ apps = <<>>
            /\ lastErr = NoError
            /\ injectables = <<>>
            /\ factory = NoFactory
            /\ calls = <<>>

NextTree ==
    \/ \E c \in Containers, p \in TreeCatalogue : Register(c, p)
    \/ \E c \in Containers, t \in Tokens : Get(c, t)

SpecTree == InitTree /\ [][NextTree]_vars

----------------------------------------------------------------------------
(* Properties of the container tree *)

\* The factories of the providers of t registered elsewhere than in n are
\* not run by the call with result r.
OnlyRuns(r, n, t) ==
    \A d \in Containers \ {n} : r.st.runs[d][t] = runs[d][t]

\* C13: a get() through container c uses, for the token asked for, the
\* provider of the nearest container on c's parent chain that registers it:
\* its value if it is a value provider, else its cached singleton, else an
\* instance its factory builds in this call; providers of the token
\* registered farther up, or elsewhere, are not used.
C13_NearestProvider ==
    \A c \in Containers, t \in Tokens :
        LET n == Nearest(c, t)
            p == ProviderOf(c, t)
            r == get(CurState, c, t)
        IN  n # 0 =>
              /\ p.kind = "value" => r.ok /\ r.val = p.useValue /\ r.st.runs = runs
              /\ IsBuilt(p) /\ r.ok =>
                    /\ OnlyRuns(r, n, t)
                    /\ IF IsSingleton(p) /\ instances[n][t] # 0
                       THEN r.val = instances[n][t] /\ r.st.runs = runs
                       ELSE /\ r.st.runs[n][t] = runs[n][t] + 1
                            /\ r.val = Len(r.st.objs)
                            /\ r.st.objs[r.val].tok = t
                            /\ Len(r.st.objs[r.val].args) = Len(DeclaredDeps(c, t))

\* In a chain of three containers the middle one shadows the root's provider
\* of a token with a provider of another kind and the third container gets
\* the middle one's; another token, registered in the root only, is resolved
\* through the third container.
C13_Witness ==
    \E c \in Containers, t \in Tokens, u \in Tokens :
        LET m == parent[c]
        IN  /\ m # 0 /\ parent[m] # 0
            /\ Nearest(c, t) = m
            /\ providers[parent[m]][t].kind \notin {"none", providers[m][t].kind}
            /\ get(CurState, c, t).ok
            /\ get(CurState, c, t).val # get(CurState, parent[m], t).val
            /\ Nearest(c, u) = parent[m]
            /\ get(CurState, c, u).ok

\* d is c or a descendant of c.
Under(d, c) == c \in Range(Ancestry(d))

----------------------------------------------------------------------------
(* Properties of registration and resolution *)

\* The providers register() may be given: those of the catalogue, and the
\* mocks of testing.override(token, mock).
Registrable == Catalogue \cup {ValueProvider(t, MockObject) : t \in Tokens}

\* C15: when a provider is registered for a token that has one in the same
\* container, a get() of the token through this container that returns,
\* returns the new provider's value, on every call, or an object built in
\* this get() by one run of the new provider's factory: never an instance
\* that existed before.
C15_RegisterReplaces ==
    \A c \in Containers, p \in Registrable :
        LET t == p.provide
            st == register(CurState, c, p)
            r == get(st, c, t)
        IN  providers[c][t].kind # "none" =>
              /\ p.kind = "value" =>
                    /\ r.ok /\ r.val = p.useValue
                    /\ get(r.st, c, t).ok /\ get(r.st, c, t).val = p.useValue
              /\ IsBuilt(p) /\ r.ok =>
                    /\ r.val > Len(objs)
                    /\ r.st.objs[r.val].tok = t
                    /\ r.st.runs[c][t] = 1
                    /\ instances[c][t] # 0 => r.val # instances[c][t]

\* A token whose provider built an instance and was replaced afterwards: the
\* object exists, the container's provider is now a value provider, and
\* get() returns the value.
C15_Witness ==
    \E c \in Containers, t \in Tokens :
        /\ providers[c][t].kind = "value"
        /\ \A d \in Containers \ {c} : providers[d][t].kind = "none"
        /\ \E o \in 1..Len(objs) : objs[o].tok = t
        /\ nRegs = 2
        /\ get(CurState, c, t).val = providers[c][t].useValue

\* The call with result r, made in state st, returned v and ran no factory
\* or constructor.
ReturnsValue(st, r, v) ==
    /\ r.ok /\ r.val = v
    /\ r.st.objs = st.objs
    /\ r.st.runs = st.runs
    /\ r.st.made = st.made
    /\ r.st.instances = st.instances

\* C16: get() of a token registered with a value provider returns the
\* registered value, on every call, and runs no factory or constructor: for
\* the value providers that are registered, and for any that registerValue()
\* would register now, through every container that takes the token from
\* there.
C16_ValueReturned ==
    /\ \A c \in Containers, t \in Tokens :
          ProviderOf(c, t).kind = "value" =>
              LET r == get(CurState, c, t)
              IN  /\ ReturnsValue(CurState, r, ProviderOf(c, t).useValue)
                  /\ ReturnsValue(r.st, get(r.st, c, t), ProviderOf(c, t).useValue)
    /\ \A c \in Containers, t \in Tokens, v \in {-1, MockObject} :
          LET st == registerValue(CurState, c, t, v)
          IN  \A d \in Containers :
                  lookupProvider(st, d, t).owner = c =>
                      ReturnsValue(st, get(st, d, t), v)

\* A value provider registered in the root is resolved through the child
\* after a factory of another token has built an instance.
C16_Witness ==
    \E c \in Containers, t \in Tokens :
        /\ parent[c] # 0
        /\ Nearest(c, t) = parent[c]
        /\ ProviderOf(c, t).kind = "value"
        /\ get(CurState, c, t).val = ProviderOf(c, t).useValue
        /\ objs # <<>>

\* The dependencies the provider declares: deps, or the class's static inject.
depsOf(provider) ==
    IF provider.kind = "class"
    THEN IF provider.hasDeps THEN provider.deps ELSE getInjectTokens(provider.useClass)
    ELSE provider.deps

\* Every object that get(st0, c, _) with result r built received, position by
\* position, what its deps resolve to in c: the value of a value provider, or
\* an instance of that token built before the object itself, the cached one
\* when the dependency is a singleton.
ArgsInOrder(st0, c, r) ==
    \A i \in (Len(st0.objs) + 1)..Len(r.st.objs) :
        LET o == r.st.objs[i]
            deps == depsOf(lookupProvider(r.st, c, o.tok).provider)
        IN  /\ Len(o.args) = Len(deps)
            /\ \A j \in 1..Len(deps) :
                  LET lw == lookupProvider(r.st, c, deps[j])
                      a == o.args[j]
                  IN  IF lw.provider.kind = "value"
                      THEN a = lw.provider.useValue
                      ELSE /\ a \in 1..(i - 1)
                           /\ r.st.objs[a].tok = deps[j]
                           /\ lifetimeOf(lw.provider) = "singleton"
                                   => r.st.instances[lw.owner][deps[j]] = a

\* C17: when get() instantiates a class or factory provider, every token of
\* its deps was resolved before the factory or constructor ran, recursively,
\* and the resolved instances are its arguments in the declared order; in the
\* registry as it is, and after any further registration.
C17_DepsResolvedFirst ==
    /\ \A c \in Containers, t \in Tokens :
          ArgsInOrder(CurState, c, get(CurState, c, t))
    /\ \A c \in Containers, p \in Catalogue :
          LET st == register(CurState, c, p)
          IN  ArgsInOrder(st, c, get(st, c, p.provide))

\* An instance of A was built from two different instances, both built
\* before it.
C17_Witness ==
    \E i \in 1..Len(objs) :
        /\ objs[i].tok = "A"
        /\ Len(objs[i].args) = 2
        /\ objs[i].args[1] < objs[i].args[2]
        /\ objs[i].args[2] < i

----------------------------------------------------------------------------
(* defineInjectable: the tokens of injectables *)

\* The symbols in the order the runtime creates them.
SymbolTable == <<"A", "B", "C">>

\* The names given to injectables: a factory's function name or config.name.
Names == {"UserService", "Logger"}

\* A faulty Symbol: one shared symbol per description, as Symbol.for gives.
Symbol_For(description, n) == IF description = "UserService" THEN "A" ELSE "B"

\* Symbol(description), called when n symbols exist: a symbol that did not
\* exist before, whatever the description.
Symbol(description, n) == SymbolTable[n + 1]

\* The Injectable object defineInjectable returns when n symbols exist.
Injectable(name, deps, lt, n) ==
    Bind(Symbol(name, n), LAMBDA token :
        [token |-> token, name |-> name, deps |-> deps, lifetime |-> lt,
         provider |-> defineInjectable(token, deps, lt)])

\* The deps an injectable may name: none, or one injectable defined earlier.
InjectableDeps == {<<>>} \cup {<<injectables[i].token>> : i \in 1..Len(injectables)}

DefineInjectable(name, deps, lt) ==
    /\ Len(injectables) < MaxInjectables
    /\ injectables' = Append(injectables, Injectable(name, deps, lt, Len(injectables)))
    /\ UNCHANGED <<parent, providers, instances, objs, runs, made, nRegs, modules,
                   ctrlDefs, ctrlInsts, apps, lastErr, factory, calls>>

\* container.register(injectable.provider)
RegisterInjectable(c, i) == Register(c, injectables[i].provider)

NextInjectable ==
    \/ \E name \in Names, deps \in InjectableDeps, lt \in {"singleton", "transient"} :
          DefineInjectable(name, deps, lt)
    \/ \E c \in Containers, i \in 1..Len(injectables) : RegisterInjectable(c, i)
    \/ \E c \in Containers, t \in Range(SymbolTable) : Get(c, t)

SpecInjectable == Init /\ [][NextInjectable]_vars

\* C18: every defineInjectable call made a symbol that is the provide key of
\* its provider and the token of no other injectable, also of one with the
\* same name; registering an injectable leaves the provider and the cached
\* instance of every other injectable alone, and get() of its token then
\* returns an instance built for that token.
C18_FreshToken ==
    /\ \A i \in 1..Len(injectables) :
          injectables[i].provider.provide = injectables[i].token
    /\ \A i, j \in 1..Len(injectables) :
          i # j => injectables[i].token # injectables[j].token
    /\ \A c \in Containers, i, j \in 1..Len(injectables) :
          i # j =>
              LET ti == injectables[i].token
                  tj == injectables[j].token
                  st == register(CurState, c, injectables[i].provider)
                  r == get(st, c, ti)
              IN  /\ st.providers[c][tj] = providers[c][tj]
                  /\ st.instances[c][tj] = instances[c][tj]
                  /\ st.providers[c][ti] = injectables[i].provider
                  /\ r.ok => /\ r.st.objs[r.val].tok = ti
                             /\ r.val # instances[c][tj]

\* Two injectables of the same name are registered in one container and each
\* token has its own cached instance.
C18_Witness ==
    \E c \in Containers, i, j \in 1..Len(injectables) :
        /\ i # j
        /\ injectables[i].name = injectables[j].name
        /\ providers[c][injectables[i].token] = injectables[i].provider
        /\ providers[c][injectables[j].token] = injectables[j].provider
        /\ instances[c][injectables[i].token] # 0
        /\ instances[c][injectables[j].token] # 0
        /\ instances[c][injectables[i].token] # instances[c][injectables[j].token]

----------------------------------------------------------------------------
(* createFactory: fixture factories *)

\* A field value is <<type, n>>: typeof value, and which value of that type.
typeof(value) == value[1]

Num(n) == <<"number", n>>
Str(n) == <<"string", n>>

\* The object with no own property.
EmptyObject == [key \in {} |-> Num(0)]

\* { ...a, ...b }
spread(a, b) ==
    [key \in DOMAIN a \cup DOMAIN b |-> IF key \in DOMAIN b THEN b[key] ELSE a[key]]

\* The defaults passed to createFactory.
Defaults ==
    { [id |-> Num(1), name |-> Str(1)],
      [id |-> Num(1), name |-> Str(1), age |-> Num(30)],
      [name |-> Str(1)] }

\* The overrides passed to build and buildMany; EmptyObject when omitted.
Overrides == {EmptyObject, [name |-> Str(2)], [id |-> Num(99)]}

createFactory(defaults) == [defaults |-> defaults, sequence |-> 0]

\* build(overrides): the factory after the call and the fixture returned.
build(f, overrides) ==
    LET sequence == f.sequence + 1
        sequenceData ==
            [key \in {k \in DOMAIN f.defaults : typeof(f.defaults[k]) = "number"}
                |-> Num(sequence)]
    IN  [factory |-> [f EXCEPT !.sequence = sequence],
         result |-> spread(spread(f.defaults, sequenceData), overrides)]

RECURSIVE buildMany(_, _, _)

\* A faulty buildMany: one fixture is built and fills the whole array.
buildMany_Fill(f, count, overrides) ==
    IF count = 0
    THEN [factory |-> f, result |-> <<>>]
    ELSE [factory |-> build(f, overrides).factory,
          result |-> [i \in 1..count |-> build(f, overrides).result]]

\* buildMany(count, overrides): Array.from({ length: count }, () => this.build(overrides))
buildMany(f, count, overrides) ==
    IF count = 0
    THEN [factory |-> f, result |-> <<>>]
    ELSE LET first == build(f, overrides)
             rest == buildMany(first.factory, count - 1, overrides)
         IN  [factory |-> rest.factory, result |-> <<first.result>> \o rest.result]

reset(f) == [f EXCEPT !.sequence = 0]

InitFactory ==
    /\ parent = <<>>
    /\ providers = <<>>
    /\ instances = <<>>
    /\ runs = <<>>
    /\ made = <<>>
    /\ objs = <<>>
    /\ ctrlInsts = <<>>
    /\ nRegs = 0
    /\ modules = <<>>
    /\ ctrlDefs = <<>>
    /\ apps = <<>>
    /\ lastErr = NoError
    /\ injectables = <<>>
    /\ \E defaults \in Defaults : factory = createFactory(defaults)
    /\ calls = <<>>

Called(op, count, overrides, r) ==
    /\ Len(calls) < MaxCalls
    /\ factory' = r.factory
    /\ calls' = Append(calls, [op |-> op, count |-> count, overrides |-> overrides,
                               result |-> r.result])
    /\ UNCHANGED <<parent, providers, instances, objs, runs, made, nRegs, modules,
                   ctrlDefs, ctrlInsts, apps, lastErr, injectables>>

Build(overrides) ==
    \E b \in {build(factory, overrides)} :
        Called("build", 1, overrides, [factory |-> b.factory, result |-> <<b.result>>])

BuildMany(count, overrides) ==
    Called("buildMany", count, overrides, buildMany(factory, count, overrides))

Reset ==
    Called("reset", 0, EmptyObject, [factory |-> reset(factory), result |-> <<>>])

NextFactory ==
    \/ \E overrides \in Overrides : Build(overrides)
    \/ \E count \in 0..MaxMany, overrides \in Overrides : BuildMany(count, overrides)
    \/ Reset

SpecFactory == InitFactory /\ [][NextFactory]_vars

RECURSIVE BuildsBefore(_)

\* The number of fixtures built by the first n calls since the last reset
\* among them, or since creation.
BuildsBefore(n) ==
    IF n = 0 \/ calls[n].op = "reset" THEN 0
    ELSE BuildsBefore(n - 1) + calls[n].count

\* The defaults with every numeric field set to k, then the overrides on top.
Fixture(k, overrides) ==
    [key \in DOMAIN factory.defaults \cup DOMAIN overrides |->
        IF key \in DOMAIN overrides THEN overrides[key]
        ELSE IF typeof(factory.defaults[key]) = "number" THEN Num(k)
        ELSE factory.defaults[key]]

\* C19: the k-th build() since creation or since the last reset() returned the
\* defaults with every numeric default field set to k and the overrides on
\* top, and buildMany(n) returned what n consecutive builds return, advancing
\* the same counter.
C19_SequencedFixtures ==
    /\ factory.sequence = BuildsBefore(Len(calls))
    /\ \A n \in 1..Len(calls) :
          calls[n].op # "reset" =>
              /\ Len(calls[n].result) = calls[n].count
              /\ \A i \in 1..calls[n].count :
                    calls[n].result[i] = Fixture(BuildsBefore(n - 1) + i, calls[n].overrides)

\* buildMany(2), reset(), then build({ name }) returned a fixture numbered 1
\* with the overriding name.
C19_Witness ==
    /\ Len(calls) = 3
    /\ "id" \in DOMAIN factory.defaults
    /\ calls[1].op = "buildMany" /\ calls[1].count = 2
    /\ calls[1].result[2].id = Num(2)
    /\ calls[2].op = "reset"
    /\ calls[3].op = "build"
    /\ calls[3].result[1].id = Num(1)
    /\ calls[3].result[1].name = Str(2)

----------------------------------------------------------------------------
(* The cache of a singleton in the container tree *)

\* C20: a singleton built by get() on container c is cached in the nearest
\* container on c's parent chain that registers the token and in no other;
\* afterwards get() on that container, and on every container that takes the
\* token from it, returns that instance and builds nothing.
C20_CachedInOwner ==
    \A c \in Containers, t \in Tokens :
        LET n == Nearest(c, t)
            r == get(CurState, c, t)
        IN  n # 0 /\ IsSingleton(providers[n][t]) /\ r.ok =>
                /\ r.st.instances[n][t] = r.val
                /\ \A e \in Containers \ {n} : r.st.instances[e][t] = instances[e][t]
                /\ \A d \in Containers :
                      Nearest(d, t) = n =>
                          LET again == get(r.st, d, t)
                          IN  /\ again.ok
                              /\ again.val = r.val
                              /\ again.st.objs = r.st.objs

\* The root's cache holds a singleton whose dependency only a descendant can
\* resolve, so it was built by get() on that descendant; the root and the
\* other containers without a provider of their own get that instance.
C20_Witness ==
    \E c \in Containers, t \in Tokens :
        /\ parent[c] # 0
        /\ Nearest(c, t) = 1
        /\ IsSingleton(providers[1][t])
        /\ instances[1][t] # 0
        /\ instances[c][t] = 0
        /\ DeclaredDeps(1, t) # <<>>
        /\ Nearest(1, DeclaredDeps(1, t)[1]) = 0
        /\ \A d \in Containers :
              Nearest(d, t) = 1 => get(CurState, d, t).val = instances[1][t]

----------------------------------------------------------------------------
(* What a parent container returns, seen from outside *)

RECURSIVE Shape(_, _)

\* What the caller can tell of a value v that get() returned: a value handed
\* in from outside is itself; an instance is its token and what it was
\* built from.
Shape(st, v) ==
    IF v <= 0
    THEN [tok |-> "", val |-> v, args |-> <<>>]
    ELSE [tok |-> st.objs[v].tok, val |-> 0,
          args |-> [i \in 1..Len(st.objs[v].args) |-> Shape(st, st.objs[v].args[i])]]

\* What get(token) on container c gives in state st: the error thrown, or the
\* shape of the value returned.
Returned(st, c, token) ==
    LET r == get(st, c, token)
    IN  [ok |-> r.ok, err |-> r.err, errTok |-> r.errTok, chain |-> r.chain,
         shape |-> IF r.ok THEN Shape(r.st, r.val) ELSE Shape(r.st, 0)]

\* C21: a register() on a child container, and a get() through a child
\* container, leave what get() on its parent gives for every token as it was.
C21_ParentUnaffected ==
    [][\A c \in Containers :
          /\ parent[c] # 0
          /\ \/ \E provider \in TreeCatalogue : Register(c, provider)
             \/ \E t \in Tokens : Get(c, t)
          => \A u \in Tokens :
                 Returned(CurState', parent[c], u) = Returned(CurState, parent[c], u)]_vars

----------------------------------------------------------------------------
(* Lifetimes across module boundaries *)

ExportsTransient(e, t) ==
    /\ t \in OwnTokens(e) \cap Exports(e)
    /\ lifetimeOf(OwnProvider(e, t)) = "transient"

\* C22: when a module exports a transient provider, each get() of the token
\* on the container of a module that imports it from there returns an
\* instance created by that call.
C22_TransientAcrossModules ==
    \A e \in Modules, m \in Modules, t \in Tokens :
        ExportsTransient(e, t) /\ e \in Imports(m) /\ LastExporter(m, t) = e
            /\ t \notin OwnTokens(m) =>
            LET first == moduleGet(m, t)
                second == get(first.st, modules[m].container, t)
            IN  /\ first.ok /\ second.ok
                /\ first.val = Len(first.st.objs) /\ first.val > Len(objs)
                /\ second.val = Len(second.st.objs) /\ second.val > Len(first.st.objs)

----------------------------------------------------------------------------
(* The dependency chain of an error *)

\* The chain of the error r that get(st, c, t) threw is a resolution path in
\* c: it starts with t and ends with the token of the error; every token
\* before the last is a class or factory provider that declares the next one
\* as a dependency, occurs once, and is not a singleton that finished (it has
\* no cached instance).
ChainIsPath(c, t, r) ==
    LET chain == r.chain
        n == Len(chain)
    IN  /\ chain[1] = t
        /\ chain[n] = r.errTok
        /\ n >= 2
        /\ \A i \in 1..(n - 1) :
              LET lk == lookupProvider(r.st, c, chain[i])
              IN  /\ lk.provider.kind \in {"class", "factory"}
                  /\ chain[i + 1] \in Range(depsOf(lk.provider))
                  /\ \A j \in (i + 1)..(n - 1) : chain[j] # chain[i]
                  /\ lifetimeOf(lk.provider) = "singleton"
                          => r.st.instances[lk.owner][chain[i]] = 0
        /\ r.err = "circular" => \E i \in 1..(n - 1) : chain[i] = r.errTok
        /\ r.err = "missing" => lookupProvider(r.st, c, r.errTok).owner = 0

ChainReported(st, c, t) ==
    LET r == get(st, c, t)
    IN  /\ r.err = "circular" => ChainIsPath(c, t, r)
        /\ r.err = "missing" /\ r.errTok # t => ChainIsPath(c, t, r)
        /\ r.err = "missing" /\ r.errTok = t => r.chain = <<>>

\* C23: the dependency chain of a circular-dependency error, and of a
\* missing-provider error raised for a dependency, is the resolution path at
\* the time of the error: from the token given to get() to the offending
\* token, through the tokens still under instantiation in order of entry, and
\* through no token that was already resolved; in the registry as it is, and
\* after any further registration.
C23_ChainIsResolutionPath ==
    /\ \A c \in Containers, t \in Tokens : ChainReported(CurState, c, t)
    /\ \A c \in Containers, p \in Catalogue, t \in Tokens :
          ChainReported(register(CurState, c, p), c, t)

\* A missing-provider error for the second dependency of A, raised after the
\* first dependency was resolved and cached: the chain is A -> B.
C23_Witness ==
    \E c \in Containers :
        LET r == get(CurState, c, "A")
        IN  /\ DeclaredDeps(c, "A") = <<"C", "B">>
            /\ r.err = "missing"
            /\ r.chain = <<"A", "B">>
            /\ Nearest(c, "C") # 0
            /\ instances[Nearest(c, "C")]["C"] # 0

----------------------------------------------------------------------------
(* The testing module of services: a test creates the module, resolves
   services with testing.get() and overrides some with testing.override(). *)

ABt == defineInjectable("A", <<"B">>, "transient")

\* The providers of the testing modules of services.
ServiceShapes ==
    { [providers |-> <<AB, Bs>>, exports |-> <<>>],
      [providers |-> <<AB, Bt>>, exports |-> <<>>],
      [providers |-> <<ABt, Bs>>, exports |-> <<>>] }

\* testing.get(token)
TestingGet(m, token) == Get(modules[m].container, token)

NextServices ==
    \/ \E config \in ModuleConfigs(ServiceShapes) : CreateTestingModule(config)
    \/ \E m \in 1..Len(modules), token \in Tokens : TestingGet(m, token)
    \/ \E m \in 1..Len(modules), token \in Mocked : Override(m, token)

SpecServices == InitEmpty /\ [][NextServices]_vars

\* C24: when a token of a testing module has been overridden with a mock,
\* every service that get() on the module returns and that declares the token
\* as a dependency was built with the mock, also a service that was resolved
\* before the override.
C24_BuiltWithTheMock ==
    \A m \in Modules, t \in Tokens, s \in Tokens :
        LET c == modules[m].container
            deps == depsOf(providers[c][s])
            r == moduleGet(m, s)
        IN  IsMock(m, t) /\ t \in Range(deps) /\ r.ok =>
                \A j \in 1..Len(deps) :
                    deps[j] = t => r.st.objs[r.val].args[j] = MockObject

====
